---------------------------- MODULE Spec2Model ----------------------------
(***************************************************************************)
(* A model of three parts of golem:                                        *)
(*   - the page-object parser/serializer  (golem/gui/page_object.py)       *)
(*   - the web element helpers           (golem/webdriver/                 *)
(*                                        extended_webelement.py)          *)
(*   - the GUI routes                    (golem/gui/web_app.py)            *)
(* Text is modelled as a sequence of one-character strings, so that        *)
(* splitting, stripping and replacing are computed as Python computes      *)
(* them.                                                                   *)
(***************************************************************************)
EXTENDS Integers, Sequences, FiniteSets, TLC

VARIABLES
    elements,      \* page object: the element list handed to save_page_object
    file,          \* page object: the content of the page file, a character sequence
    web_elements,  \* page object: outcome of the last get_page_object_elements
    po_op,         \* page object: the last operation on the page file
    previous,      \* page object: the file content before the last re-save
    source_lines,  \* page object: the lines a hand-edited page file was made of
    writers,       \* page object: the save_page_object calls in progress, per caller
    parameter,     \* is_page_object: the parameter string
    page_objects,  \* is_page_object: the names of the project's page objects
    is_po,         \* is_page_object: the value returned ("True", "False"), "none" before the call
    web_element,   \* web element: tag name, type attribute and selected state
    call,          \* web element: the last check/uncheck call and what it did
    page,          \* web element: what the wait conditions observe of the element
    wait,          \* web element: the wait helper call in progress or ended
    current_user,  \* web app: the user of the session, "anonymous" when logged out
    response,      \* web app: the response to the last request
    form,          \* web app: the last request to login: method, form values, user before
    keys_sent,     \* web element: the keys sent to the element so far
    key_call,      \* web element: the last press_key / send_keys_with_delay call
    page_fs,       \* page object: whether the pages directory and the page file exist
    prev_op        \* page object: the operation on the page file before the last one

poVars == <<elements, file, web_elements, po_op, previous, source_lines>>
concVars == <<writers>>
ipoVars == <<parameter, page_objects, is_po>>
cbVars == <<web_element, call>>
waitVars == <<page, wait>>
webVars == <<current_user, response, form>>
keyVars == <<keys_sent, key_call>>
lifeVars == <<page_fs, prev_op>>

vars == <<poVars, concVars, ipoVars, cbVars, waitVars, webVars, keyVars, lifeVars>>

\* The state of each part while another part is exercised.
PoIdle ==
    /\ elements = <<>> /\ file = <<>> /\ web_elements = [raised |-> "none", value |-> <<>>]
    /\ po_op = "none" /\ previous = <<>> /\ source_lines = <<>>
ConcIdle == writers = <<>>
IpoIdle == parameter = <<>> /\ page_objects = {} /\ is_po = "none"
NoElement == [tag_name |-> "none", type |-> "none", selected |-> FALSE, clicks_received |-> 0]
NoCall == [method |-> "none", raised |-> "none", clicks |-> 0, was_selected |-> FALSE,
           repeated |-> FALSE, n |-> 0]
CbIdle == web_element = NoElement /\ call = NoCall
NoPage == [displayed |-> FALSE, enabled |-> FALSE, attributes |-> {}, text |-> <<>>]
NoWait == [helper |-> "none", pc |-> "idle", timeout |-> 0, elapsed |-> 0,
           raised |-> "none", message |-> <<>>, value |-> "none"]
WaitIdle == page = NoPage /\ wait = NoWait
NoResponse == [route |-> "none", project |-> "", item |-> "", status |-> 0, template |-> "",
               location |-> "", message |-> <<>>, errors |-> <<>>, steps |-> <<>>, no_sidebar |-> FALSE,
               login_user |-> ""]
NoForm == [method |-> "none", username |-> "", password |-> "", next_url |-> "",
           user_before |-> "anonymous"]
WebIdle == current_user = "anonymous" /\ response = NoResponse /\ form = NoForm
NoKeyCall == [method |-> "none", key |-> "", value |-> <<>>, delay_type |-> "none", delay |-> 0,
              raised |-> "none", sent_before |-> <<>>, n |-> 0]
KeyIdle == keys_sent = <<>> /\ key_call = NoKeyCall
LifeIdle == page_fs = [dir_exists |-> TRUE, file_exists |-> FALSE] /\ prev_op = "none"

(***************************************************************************)
(* Python string operations                                                *)
(***************************************************************************)
NL == "\n"

Whitespace == {" ", NL}

\* c in s
Contains(s, c) == \E i \in 1..Len(s) : s[i] = c

\* s.split(c): always at least one part
RECURSIVE Split(_, _)
Split(s, c) ==
    IF s = <<>> THEN << <<>> >>
    ELSE LET rest == Split(Tail(s), c)
         IN  IF Head(s) = c
             THEN << <<>> >> \o rest
             ELSE << <<Head(s)>> \o Head(rest) >> \o Tail(rest)

RECURSIVE LStrip(_)
LStrip(s) == IF s # <<>> /\ Head(s) \in Whitespace THEN LStrip(Tail(s)) ELSE s

RECURSIVE RStrip(_)
RStrip(s) ==
    IF s # <<>> /\ s[Len(s)] \in Whitespace THEN RStrip(SubSeq(s, 1, Len(s) - 1)) ELSE s

\* s.strip()
Strip(s) == RStrip(LStrip(s))

\* s.replace(c, '')
Remove(s, c) == SelectSeq(s, LAMBDA x : x # c)

\* ''.join(parts)
RECURSIVE Join(_)
Join(parts) == IF parts = <<>> THEN <<>> ELSE Head(parts) \o Join(Tail(parts))

\* f.readlines(): the lines of a text, each keeping its newline
RECURSIVE ReadLines(_)
ReadLines(text) ==
    IF text = <<>> THEN <<>>
    ELSE LET first == CHOOSE i \in 1..Len(text) :
                          /\ text[i] = NL \/ i = Len(text)
                          /\ \A j \in 1..(i - 1) : text[j] # NL
         IN  <<SubSeq(text, 1, first)>> \o ReadLines(SubSeq(text, first + 1, Len(text)))

(***************************************************************************)
(* page_object.py                                                          *)
(***************************************************************************)
\* The name of the page whose file is modelled.
po_name == <<"p">>

NoResult == [raised |-> "none", value |-> <<>>]

\* One iteration of the loop of get_web_elements on a line that holds '='.
ParseLineDropsQuotesOnly(line) ==
    LET element_name == Strip(Split(line, "=")[1])
        element_description == Strip(Split(line, "=")[2])
        parts == Split(element_description, ",")
    IN  IF Len(parts) < 3
        THEN [raised |-> "IndexError", value |-> <<>>]
        ELSE [raised |-> "none",
              value |-> [element_name |-> element_name,
                         element_selector |-> Remove(Strip(parts[1]), "'"),
                         element_value |-> Remove(Strip(parts[2]), "'"),
                         element_display_name |-> Remove(Strip(parts[3]), "'"),
                         element_full_name |-> Join(<<po_name, <<".">>, element_name>>)]]

ParseLine(line) ==
    LET element_name == Strip(Split(line, "=")[1])
        element_description == Strip(Split(line, "=")[2])
        parts == Split(element_description, ",")
    IN  IF Len(parts) < 3
        THEN [raised |-> "IndexError", value |-> <<>>]
        ELSE [raised |-> "none",
              value |-> [element_name |-> element_name,
                         element_selector |-> Remove(Remove(Strip(parts[1]), "'"), "("),
                         element_value |-> Remove(Strip(parts[2]), "'"),
                         element_display_name |-> Remove(Remove(Strip(parts[3]), "'"), ")"),
                         element_full_name |-> Join(<<po_name, <<".">>, element_name>>)]]

\* As ParseFrom, but the loop ends at the first line without '='.
RECURSIVE ParseFromStopsAtOther(_, _, _)
ParseFromStopsAtOther(content, i, collected) ==
    IF i > Len(content) THEN [raised |-> "none", value |-> collected]
    ELSE IF ~Contains(content[i], "=") THEN [raised |-> "none", value |-> collected]
    ELSE LET r == ParseLine(content[i])
         IN  IF r.raised # "none"
             THEN [raised |-> r.raised, value |-> <<>>]
             ELSE ParseFromStopsAtOther(content, i + 1, Append(collected, r.value))

\* As ParseFrom, but a line that raises is skipped.
RECURSIVE ParseFromSkipsBadLine(_, _, _)
ParseFromSkipsBadLine(content, i, collected) ==
    IF i > Len(content) THEN [raised |-> "none", value |-> collected]
    ELSE IF ~Contains(content[i], "=") THEN ParseFromSkipsBadLine(content, i + 1, collected)
    ELSE LET r == ParseLine(content[i])
         IN  IF r.raised # "none"
             THEN ParseFromSkipsBadLine(content, i + 1, collected)
             ELSE ParseFromSkipsBadLine(content, i + 1, Append(collected, r.value))

\* The loop of get_web_elements from line i on, with the records collected so far.
RECURSIVE ParseFrom(_, _, _)
ParseFrom(content, i, collected) ==
    IF i > Len(content) THEN [raised |-> "none", value |-> collected]
    ELSE IF ~Contains(content[i], "=") THEN ParseFrom(content, i + 1, collected)
    ELSE LET r == ParseLine(content[i])
         IN  IF r.raised # "none"
             THEN [raised |-> r.raised, value |-> <<>>]
             ELSE ParseFrom(content, i + 1, Append(collected, r.value))

get_web_elements(content) == ParseFrom(content, 1, <<>>)

\* The text one f.write of save_page_object produces for an element.
WriteLine(element) ==
    Join(<< element.name, <<" ", "=", " ", "(", "'">>, element.selector,
            <<"'", ",", " ", "'">>, element.value,
            <<"'", ",", " ", "'">>, element.display_name,
            <<"'", ")", NL>> >>)

\* The text save_page_object writes for an element list.
RECURSIVE WriteAll(_)
WriteAll(els) == IF els = <<>> THEN <<>> ELSE WriteLine(Head(els)) \o WriteAll(Tail(els))

\* The record the page editor hands to save_page_object for a parsed element.
AsElement(we) ==
    [name |-> we.element_name, selector |-> we.element_selector,
     value |-> we.element_value, display_name |-> we.element_display_name]

AsElements(wes) == [i \in 1..Len(wes) |-> AsElement(wes[i])]

\* save_page_object(root_path, project, page_name, elements)
save_page_object ==
    /\ po_op = "none"
    /\ file' = WriteAll(elements)
    /\ po_op' = "save"
    /\ UNCHANGED <<elements, web_elements, previous, source_lines>>
    /\ UNCHANGED <<concVars, ipoVars, cbVars, waitVars, webVars, keyVars, lifeVars>>

\* get_page_object_elements(root_path, project, parents, po_name)
get_page_object_elements ==
    /\ po_op \in {"save", "edit"}
    /\ web_elements' = get_web_elements(ReadLines(file))
    /\ po_op' = "load"
    /\ UNCHANGED <<elements, file, previous, source_lines>>
    /\ UNCHANGED <<concVars, ipoVars, cbVars, waitVars, webVars, keyVars, lifeVars>>

\* The page editor saves the elements it loaded.
resave_page_object ==
    /\ po_op = "load"
    /\ web_elements.raised = "none"
    /\ previous' = file
    /\ file' = WriteAll(AsElements(web_elements.value))
    /\ po_op' = "resave"
    /\ UNCHANGED <<elements, web_elements, source_lines>>
    /\ UNCHANGED <<concVars, ipoVars, cbVars, waitVars, webVars, keyVars, lifeVars>>

(***************************************************************************)
(* Round trip: the element lists handed to save_page_object                *)
(***************************************************************************)
MaxElems == 2

Names == { <<"u">>, <<"o", "k">>, <<" ", "x">> }
Selectors == { <<"i", "d">>, <<"(", "x">> }
Values == { <<"a", "-", "b">>, <<"x">>, <<"a", "=", "b">> }
DisplayNames == { <<"A", " ", "b">>, <<"a", ")">> }

Elements == [name : Names, selector : Selectors, value : Values,
             display_name : DisplayNames]

ElementLists == UNION { [1..n -> Elements] : n \in 0..MaxElems }

\* The characters of a field that needs no escaping and no trimming.
PlainChars == {"a", "b", "d", "i", "k", "o", "u", "x", "A", "B", "-", " "}

IsPlain(s) ==
    /\ \A i \in 1..Len(s) : s[i] \in PlainChars
    /\ s = Strip(s)

\* An element whose line is of the canonical form name = ('selector', 'value', 'display_name').
IsCanonical(e) ==
    /\ e.name # <<>> /\ IsPlain(e.name) /\ ~Contains(e.name, " ") /\ ~Contains(e.name, "-")
    /\ IsPlain(e.selector) /\ IsPlain(e.value) /\ IsPlain(e.display_name)

AllCanonical(els) == \A i \in 1..Len(els) : IsCanonical(els[i])

NoCommaNoQuote(s) == ~Contains(s, ",") /\ ~Contains(s, "'")

\* C1: for every element list whose fields hold no commas and no quotes,
\* writing it with save_page_object and parsing the written file with
\* get_web_elements yields an equal list of records (same length, same order,
\* same name, selector, value and display_name).
C1_RoundTrip ==
    (/\ po_op \in {"load", "resave"}
     /\ \A i \in 1..Len(elements) :
            /\ NoCommaNoQuote(elements[i].name)
            /\ NoCommaNoQuote(elements[i].selector)
            /\ NoCommaNoQuote(elements[i].value)
            /\ NoCommaNoQuote(elements[i].display_name))
    => /\ web_elements.raised = "none"
       /\ AsElements(web_elements.value) = elements

\* C7: a canonical line name = ('selector', 'value', 'display_name') parses to
\* the record of its four fields, bare of the surrounding whitespace, quotes
\* and parentheses, and saving the parsed record writes the identical line.
C7_CanonicalLine ==
    AllCanonical(elements) =>
        /\ po_op \in {"load", "resave"} =>
              /\ web_elements.raised = "none"
              /\ AsElements(web_elements.value) = elements
              /\ \A i \in 1..Len(elements) :
                    web_elements.value[i].element_full_name
                        = po_name \o <<".">> \o elements[i].name
        /\ po_op = "resave" => file = previous

C7_Witness ==
    /\ po_op = "resave"
    /\ Len(elements) = 2
    /\ AllCanonical(elements)
    /\ elements[1] # elements[2]
    /\ file = WriteLine(elements[1]) \o WriteLine(elements[2])


InitRoundTrip ==
    /\ elements \in ElementLists
    /\ file = <<>>
    /\ web_elements = NoResult
    /\ po_op = "none"
    /\ previous = <<>>
    /\ source_lines = <<>>
    /\ ConcIdle /\ IpoIdle /\ CbIdle /\ WaitIdle /\ WebIdle /\ KeyIdle /\ LifeIdle

NextRoundTrip ==
    \/ save_page_object
    \/ get_page_object_elements
    \/ resave_page_object

SpecRoundTrip == InitRoundTrip /\ [][NextRoundTrip]_vars

(***************************************************************************)
(* Parsing: hand-edited page files                                         *)
(***************************************************************************)
MaxLines == 3

\* A declaration as typed by hand, without blanks.
CompactLine(element) ==
    Join(<< element.name, <<"=", "(", "'">>, element.selector,
            <<"'", ",", "'">>, element.value,
            <<"'", ",", "'">>, element.display_name,
            <<"'", ")", NL>> >>)

SampleElements ==
    { [name |-> <<"u">>, selector |-> <<"i", "d">>, value |-> <<"a", "-", "b">>,
       display_name |-> <<"A", " ", "b">>],
      [name |-> <<"o", "k">>, selector |-> <<"i", "d">>, value |-> <<"x">>,
       display_name |-> <<"B">>] }

CompactElement ==
    [name |-> <<"k">>, selector |-> <<"x">>, value |-> <<"b">>, display_name |-> <<"A">>]

\* Lines of the form name = ('selector', 'value', 'display_name').
WellFormedLines == { WriteLine(e) : e \in SampleElements } \cup { CompactLine(CompactElement) }

\* A blank line, a comment and an import.
OtherLines ==
    { <<NL>>,
      <<"#", " ", "u", NL>>,
      <<"i", "m", "p", "o", "r", "t", " ", "x", NL>> }

\* Lines with '=' and fewer than three comma-separated fields after it.
MalformedLines ==
    { <<"u", " ", "=", " ", "x", NL>>,
      <<"u", " ", "=", " ", "(", "'", "i", "d", "'", ",", " ", "'", "x", "'", ")", NL>> }

EditedLines == WellFormedLines \cup OtherLines \cup MalformedLines

EditedFiles == UNION { [1..n -> EditedLines] : n \in 0..MaxLines }

\* The element a well-formed line declares.
DeclaredBy(line) ==
    CHOOSE e \in SampleElements \cup {CompactElement} :
        line \in {WriteLine(e), CompactLine(e)}

\* The elements the well-formed lines of a file declare, in file order.
RECURSIVE Declared(_)
Declared(lines) ==
    IF lines = <<>> THEN <<>>
    ELSE IF Head(lines) \in WellFormedLines
         THEN <<DeclaredBy(Head(lines))>> \o Declared(Tail(lines))
         ELSE Declared(Tail(lines))

\* The number of comma-separated fields after the first '=' of a line.
FieldsAfterEquals(line) ==
    LET eq == CHOOSE i \in 1..Len(line) : line[i] = "=" /\ \A j \in 1..(i - 1) : line[j] # "="
    IN  1 + Cardinality({ i \in (eq + 1)..Len(line) : line[i] = "," })

HasMalformedLine(lines) ==
    \E i \in 1..Len(lines) : Contains(lines[i], "=") /\ FieldsAfterEquals(lines[i]) < 3

\* C2: a file of N well-formed lines and M lines without '=' (blank lines,
\* comments, imports), in any interleaving, parses to exactly N records, in the
\* file order of the well-formed lines; a line yields a record iff it holds '='.
C2_RecordsOfWellFormedLines ==
    (/\ po_op = "load"
     /\ \A i \in 1..Len(source_lines) : source_lines[i] \in WellFormedLines \cup OtherLines)
    => /\ web_elements.raised = "none"
       /\ AsElements(web_elements.value) = Declared(source_lines)
       /\ Len(web_elements.value)
             = Cardinality({ i \in 1..Len(source_lines) : source_lines[i] \in WellFormedLines })
       /\ Len(web_elements.value)
             = Cardinality({ i \in 1..Len(source_lines) : Contains(source_lines[i], "=") })

C2_Witness ==
    /\ po_op = "load"
    /\ Len(source_lines) = 3
    /\ source_lines[1] \in OtherLines
    /\ source_lines[2] \in WellFormedLines
    /\ source_lines[3] \in OtherLines
    /\ Len(web_elements.value) = 1

\* C6: when a line holds '=' and fewer than three comma-separated fields follow
\* it, get_web_elements raises an index error and returns no record list at
\* all, not even the records of the lines before it.
C6_MalformedLineIsFatal ==
    (po_op = "load" /\ HasMalformedLine(source_lines))
    => /\ web_elements.raised = "IndexError"
       /\ web_elements.value = <<>>

C6_Witness ==
    /\ po_op = "load"
    /\ Len(source_lines) = 3
    /\ source_lines[1] \in WellFormedLines
    /\ source_lines[2] \in MalformedLines
    /\ source_lines[3] \in WellFormedLines
    /\ web_elements.raised = "IndexError"

InitParse ==
    /\ source_lines \in EditedFiles
    /\ file = Join(source_lines)
    /\ elements = <<>>
    /\ web_elements = NoResult
    /\ po_op = "edit"
    /\ previous = <<>>
    /\ ConcIdle /\ IpoIdle /\ CbIdle /\ WaitIdle /\ WebIdle /\ KeyIdle /\ LifeIdle

NextParse == get_page_object_elements

SpecParse == InitParse /\ [][NextParse]_vars

(***************************************************************************)
(* is_page_object                                                          *)
(***************************************************************************)
MaxParamLen == 3

ParamChars == {"a", "b", "."}

Parameters == UNION { [1..n -> ParamChars] : n \in 0..MaxParamLen }

PageObjectNames == { <<"a">>, <<"b">>, <<"a", "b">> }

\* As IsPageObject, but the first segment of the chain is compared.
IsPageObjectFirstSegment(param, known) ==
    IF Len(Split(param, ".")) <= 1 THEN FALSE
    ELSE LET page_object_chain == SubSeq(Split(param, "."), 1, Len(Split(param, ".")) - 1)
         IN  \E po \in known : po = page_object_chain[1]

\* The value is_page_object returns for a parameter, given the known page objects.
IsPageObject(param, known) ==
    IF Len(Split(param, ".")) <= 1 THEN FALSE
    ELSE LET page_object_chain == SubSeq(Split(param, "."), 1, Len(Split(param, ".")) - 1)
         IN  \E po \in known : po = page_object_chain[Len(page_object_chain)]

\* is_page_object(parameter, root_path, project)
is_page_object ==
    /\ is_po = "none"
    /\ is_po' = IF IsPageObject(parameter, page_objects) THEN "True" ELSE "False"
    /\ UNCHANGED <<parameter, page_objects>>
    /\ UNCHANGED <<poVars, concVars, cbVars, waitVars, webVars, keyVars, lifeVars>>

\* The positions of the dots of a string.
Dots(s) == { i \in 1..Len(s) : s[i] = "." }

Max(S) == CHOOSE x \in S : \A y \in S : y <= x

\* The text between the last dot of a string and the dot before it (or the start).
Penultimate(s) ==
    LET last == Max(Dots(s))
        before == Dots(s) \ {last}
        from == IF before = {} THEN 1 ELSE Max(before) + 1
    IN  SubSeq(s, from, last - 1)

\* C3: is_page_object is False for a parameter of fewer than two dot-separated
\* segments; for one of two or more it is True iff the penultimate segment is
\* the name of a known page object.
C3_PenultimateSegment ==
    is_po # "none" =>
        /\ Dots(parameter) = {} => is_po = "False"
        /\ Dots(parameter) # {} => (is_po = "True" <=> Penultimate(parameter) \in page_objects)

C3_Witness ==
    /\ is_po = "True"
    /\ parameter = <<"a", ".", "b">>

InitIsPageObject ==
    /\ parameter \in Parameters
    /\ page_objects \in SUBSET PageObjectNames
    /\ is_po = "none"
    /\ PoIdle /\ ConcIdle /\ CbIdle /\ WaitIdle /\ WebIdle /\ KeyIdle /\ LifeIdle

NextIsPageObject == is_page_object

SpecIsPageObject == InitIsPageObject /\ [][NextIsPageObject]_vars

(***************************************************************************)
(* extended_webelement.py: check and uncheck                               *)
(***************************************************************************)
MaxCalls == 4

TagNames == {"input", "div"}
TypeAttributes == {"checkbox", "radio", "text"}

\* What the browser does on self.click(): a checkbox toggles, a radio button
\* becomes selected, anything else keeps its state.
Click(el) ==
    [el EXCEPT !.selected = IF el.tag_name = "input" /\ el.type = "checkbox" THEN ~el.selected
                            ELSE IF el.tag_name = "input" /\ el.type = "radio" THEN TRUE
                            ELSE el.selected,
               !.clicks_received = el.clicks_received + 1]

\* As Check, but the element is clicked whether selected or not.
CheckAlwaysClicks(el) ==
    LET checkbox_or_radio == el.tag_name = "input" /\ el.type \in {"checkbox", "radio"}
    IN  IF checkbox_or_radio
        THEN [raised |-> "none", clicks |-> 1, el |-> Click(el)]
        ELSE [raised |-> "ValueError", clicks |-> 0, el |-> el]

\* ExtendedWebElement.check
Check(el) ==
    LET checkbox_or_radio == el.tag_name = "input" /\ el.type \in {"checkbox", "radio"}
    IN  IF checkbox_or_radio
        THEN IF ~el.selected
             THEN [raised |-> "none", clicks |-> 1, el |-> Click(el)]
             ELSE [raised |-> "none", clicks |-> 0, el |-> el]
        ELSE [raised |-> "ValueError", clicks |-> 0, el |-> el]

\* As Uncheck, but a radio button is accepted as check accepts it.
UncheckAcceptsRadio(el) ==
    LET is_checkbox == el.tag_name = "input" /\ el.type \in {"checkbox", "radio"}
    IN  IF is_checkbox
        THEN IF el.selected
             THEN [raised |-> "none", clicks |-> 1, el |-> Click(el)]
             ELSE [raised |-> "none", clicks |-> 0, el |-> el]
        ELSE [raised |-> "ValueError", clicks |-> 0, el |-> el]

\* ExtendedWebElement.uncheck
Uncheck(el) ==
    LET is_checkbox == el.tag_name = "input" /\ el.type = "checkbox"
    IN  IF is_checkbox
        THEN IF el.selected
             THEN [raised |-> "none", clicks |-> 1, el |-> Click(el)]
             ELSE [raised |-> "none", clicks |-> 0, el |-> el]
        ELSE [raised |-> "ValueError", clicks |-> 0, el |-> el]

check ==
    /\ call.n < MaxCalls
    /\ web_element' = Check(web_element).el
    /\ call' = [method |-> "check", raised |-> Check(web_element).raised,
                clicks |-> Check(web_element).clicks, was_selected |-> web_element.selected,
                repeated |-> (call.method = "check"), n |-> call.n + 1]
    /\ UNCHANGED <<poVars, concVars, ipoVars, waitVars, webVars, keyVars, lifeVars>>

uncheck ==
    /\ call.n < MaxCalls
    /\ web_element' = Uncheck(web_element).el
    /\ call' = [method |-> "uncheck", raised |-> Uncheck(web_element).raised,
                clicks |-> Uncheck(web_element).clicks, was_selected |-> web_element.selected,
                repeated |-> (call.method = "uncheck"), n |-> call.n + 1]
    /\ UNCHANGED <<poVars, concVars, ipoVars, waitVars, webVars, keyVars, lifeVars>>

IsCheckbox(el) == el.tag_name = "input" /\ el.type = "checkbox"

\* C4: check and uncheck are idempotent on a checkbox: in any sequence of calls,
\* check on a selected box and uncheck on an unselected box click nothing, a call
\* clicks at most once and only when the state must change, and the box is
\* selected after check and unselected after uncheck.
C4_CheckUncheckIdempotent ==
    IsCheckbox(web_element) =>
        /\ call.method = "check" =>
              /\ call.raised = "none"
              /\ web_element.selected
              /\ call.clicks = (IF call.was_selected THEN 0 ELSE 1)
        /\ call.method = "uncheck" =>
              /\ call.raised = "none"
              /\ ~web_element.selected
              /\ call.clicks = (IF call.was_selected THEN 1 ELSE 0)
        /\ call.repeated => call.clicks = 0

C4_Witness ==
    /\ IsCheckbox(web_element)
    /\ call.method = "check"
    /\ call.repeated
    /\ call.was_selected
    /\ call.clicks = 0
    /\ web_element.clicks_received = 3

\* C13: check and uncheck test tag and type before they touch the element:
\* check on anything but an input of type checkbox or radio, and uncheck on
\* anything but an input of type checkbox (a radio button too), raise ValueError,
\* click nothing and leave the selected state as it was.
C13_WrongElementRaises ==
    /\ (/\ call.method = "check"
        /\ ~(web_element.tag_name = "input" /\ web_element.type \in {"checkbox", "radio"}))
       => /\ call.raised = "ValueError"
          /\ call.clicks = 0
          /\ web_element.selected = call.was_selected
    /\ (/\ call.method = "uncheck"
        /\ ~(web_element.tag_name = "input" /\ web_element.type = "checkbox"))
       => /\ call.raised = "ValueError"
          /\ call.clicks = 0
          /\ web_element.selected = call.was_selected

C13_Witness ==
    /\ call.method = "uncheck"
    /\ web_element.tag_name = "input"
    /\ web_element.type = "radio"
    /\ web_element.selected
    /\ web_element.clicks_received = 1
    /\ call.raised = "ValueError"

InitCheckbox ==
    /\ web_element \in [tag_name : TagNames, type : TypeAttributes, selected : BOOLEAN,
                        clicks_received : {0}]
    /\ call = NoCall
    /\ PoIdle /\ ConcIdle /\ IpoIdle /\ WaitIdle /\ WebIdle /\ KeyIdle /\ LifeIdle

NextCheckbox ==
    \/ check
    \/ uncheck

SpecCheckbox == InitCheckbox /\ [][NextCheckbox]_vars

(***************************************************************************)
(* Two save_page_object calls on the same page at once                     *)
(***************************************************************************)
Callers == {1, 2}

SaveLists == UNION { [1..n -> SampleElements] : n \in 0..MaxElems }

\* What is in the file after a write of data at position 0 that does not
\* truncate: the bytes beyond the data stay.
WriteAtStart(content, data) == data \o SubSeq(content, Len(data) + 1, Len(content))

\* open(page_object_path, 'w'): the file is emptied; the caller's position is 0.
save_open(w) ==
    /\ writers[w].pc = "idle"
    /\ file' = <<>>
    /\ writers' = [writers EXCEPT ![w].pc = "open"]
    /\ UNCHANGED <<elements, web_elements, po_op, previous, source_lines>>
    /\ UNCHANGED <<ipoVars, cbVars, waitVars, webVars, keyVars, lifeVars>>

\* One f.write of the loop: the line goes to the buffer of the caller's file object.
save_write(w) ==
    /\ writers[w].pc = "open"
    /\ writers[w].i <= Len(writers[w].elements)
    /\ writers' = [writers EXCEPT
                     ![w].buffer = @ \o WriteLine(writers[w].elements[writers[w].i]),
                     ![w].i = @ + 1]
    /\ UNCHANGED poVars
    /\ UNCHANGED <<ipoVars, cbVars, waitVars, webVars, keyVars, lifeVars>>

\* The end of the with block: the buffer is written at the caller's position and
\* the file is closed.
save_close(w) ==
    /\ writers[w].pc = "open"
    /\ writers[w].i > Len(writers[w].elements)
    /\ file' = WriteAtStart(file, writers[w].buffer)
    /\ writers' = [writers EXCEPT ![w].pc = "closed", ![w].buffer = <<>>]
    /\ UNCHANGED <<elements, web_elements, po_op, previous, source_lines>>
    /\ UNCHANGED <<ipoVars, cbVars, waitVars, webVars, keyVars, lifeVars>>

\* C8: two save_page_object calls on the same page, their open and write
\* steps interleaved in any order, leave a file that is exactly the complete
\* serialization of one caller's element list (the last writer's), never a
\* mixture of both.
C8_LastWriterWins ==
    (\A w \in Callers : writers[w].pc = "closed")
    => \E w \in Callers : file = WriteAll(writers[w].elements)

InitConcurrentSave ==
    /\ writers \in [Callers -> [pc : {"idle"}, elements : SaveLists, i : {1}, buffer : {<<>>}]]
    /\ PoIdle /\ IpoIdle /\ CbIdle /\ WaitIdle /\ WebIdle /\ KeyIdle /\ LifeIdle

NextConcurrentSave ==
    \E w \in Callers :
        \/ save_open(w)
        \/ save_write(w)
        \/ save_close(w)

SpecConcurrentSave == InitConcurrentSave /\ [][NextConcurrentSave]_vars

(***************************************************************************)
(* extended_webelement.py: the wait helpers                                *)
(***************************************************************************)
\* The longest timeout tried, in polling intervals of the wait.
MaxTimeout == 2

WaitHelpers ==
    { "wait_displayed", "wait_enabled", "wait_has_attribute", "wait_has_not_attribute",
      "wait_not_displayed", "wait_not_enabled", "wait_text", "wait_text_contains",
      "wait_text_is_not", "wait_text_not_contains" }

\* The arguments the helpers are called with.
attribute == "x"
text == <<"a">>

\* text in s
IsSubstring(t, s) ==
    \E i \in 0..(Len(s) - Len(t)) : SubSeq(s, i + 1, i + Len(t)) = t

\* The expected condition each helper hands to the wait.
HelperCondition(h) ==
    CASE h \in {"wait_displayed", "wait_not_displayed"} -> "visibility_of"
      [] h \in {"wait_enabled", "wait_not_enabled"} -> "element_to_be_enabled"
      [] h \in {"wait_has_attribute", "wait_has_not_attribute"} -> "element_to_have_attribute"
      [] h \in {"wait_text", "wait_text_is_not"} -> "element_text_to_be"
      [] h \in {"wait_text_contains", "wait_text_not_contains"} -> "element_text_to_contain"

\* As UsesUntilNot, but every helper calls wait.until.
AlwaysUntil(h) == FALSE

\* Whether the helper calls wait.until_not rather than wait.until.
UsesUntilNot(h) ==
    h \in {"wait_has_not_attribute", "wait_not_displayed", "wait_not_enabled",
           "wait_text_is_not", "wait_text_not_contains"}

\* The message the helper hands to the wait.
HelperMessage(h) ==
    <<"Timeout waiting for element", "name">> \o
    CASE h = "wait_displayed" -> <<"to be displayed">>
      [] h = "wait_enabled" -> <<"to be enabled">>
      [] h = "wait_has_attribute" -> <<"to have attribute", attribute>>
      [] h = "wait_has_not_attribute" -> <<"to not have attribute", attribute>>
      [] h = "wait_not_displayed" -> <<"to be not displayed">>
      [] h = "wait_not_enabled" -> <<"to be not enabled">>
      [] h = "wait_text" -> <<"text to be", text>>
      [] h = "wait_text_contains" -> <<"text to contain", text>>
      [] h = "wait_text_is_not" -> <<"text not to be", text>>
      [] h = "wait_text_not_contains" -> <<"text to not contain", text>>

\* The value of an expected condition on the element as the page shows it.
ConditionValue(condition, p) ==
    CASE condition = "visibility_of" -> p.displayed
      [] condition = "element_to_be_enabled" -> p.enabled
      [] condition = "element_to_have_attribute" -> attribute \in p.attributes
      [] condition = "element_text_to_be" -> p.text = text
      [] condition = "element_text_to_contain" -> IsSubstring(text, p.text)

\* Whether the wait of helper h ends on the page as it is: until ends on a true
\* value of the condition, until_not on a false one.
WaitEnds(h, p) ==
    IF UsesUntilNot(h) THEN ~ConditionValue(HelperCondition(h), p)
    ELSE ConditionValue(HelperCondition(h), p)

\* A helper is called: wait = WebDriverWait(self.parent, timeout).
start_wait(h, timeout) ==
    /\ wait.pc # "waiting"
    /\ wait' = [helper |-> h, pc |-> "waiting", timeout |-> timeout, elapsed |-> 0,
                raised |-> "none", message |-> <<>>, value |-> "none"]
    /\ UNCHANGED page
    /\ UNCHANGED <<poVars, concVars, ipoVars, cbVars, webVars, keyVars, lifeVars>>

\* One round of the wait: the condition is evaluated; the helper returns self
\* when the wait ends, else the wait sleeps one interval and raises once the
\* timeout is passed.
poll ==
    /\ wait.pc = "waiting"
    /\ wait' = IF WaitEnds(wait.helper, page)
               THEN [wait EXCEPT !.pc = "returned", !.value = "self"]
               ELSE IF wait.elapsed + 1 > wait.timeout
                    THEN [wait EXCEPT !.pc = "timeout", !.elapsed = @ + 1,
                                      !.raised = "TimeoutException",
                                      !.message = HelperMessage(wait.helper)]
                    ELSE [wait EXCEPT !.elapsed = @ + 1]
    /\ UNCHANGED page
    /\ UNCHANGED <<poVars, concVars, ipoVars, cbVars, webVars, keyVars, lifeVars>>

PageStates ==
    [displayed : BOOLEAN, enabled : BOOLEAN, attributes : SUBSET {attribute},
     text : {<<>>, <<"a">>, <<"b", "a">>}]

\* The page changes what it shows of the element.
page_changes ==
    /\ \E p \in PageStates :
          /\ p # page
          /\ \/ p = [page EXCEPT !.displayed = p.displayed]
             \/ p = [page EXCEPT !.enabled = p.enabled]
             \/ p = [page EXCEPT !.attributes = p.attributes]
             \/ p = [page EXCEPT !.text = p.text]
          /\ page' = p
    /\ UNCHANGED wait
    /\ UNCHANGED <<poVars, concVars, ipoVars, cbVars, webVars, keyVars, lifeVars>>

\* What each helper waits for, as its name and documentation say.
Awaited(h, p) ==
    CASE h = "wait_displayed" -> p.displayed
      [] h = "wait_not_displayed" -> ~p.displayed
      [] h = "wait_enabled" -> p.enabled
      [] h = "wait_not_enabled" -> ~p.enabled
      [] h = "wait_has_attribute" -> attribute \in p.attributes
      [] h = "wait_has_not_attribute" -> attribute \notin p.attributes
      [] h = "wait_text" -> p.text = text
      [] h = "wait_text_is_not" -> p.text # text
      [] h = "wait_text_contains" -> (p.text = <<"a">> \/ p.text = <<"b", "a">>)
      [] h = "wait_text_not_contains" -> p.text = <<>>

\* C5: every wait helper terminates: it blocks until its condition holds (for
\* the negated helpers, stops holding) and then returns the element itself, or
\* until the timeout has elapsed and then raises a timeout error whose message
\* names the element and the expected condition; it returns only when the
\* condition is met, so never on a condition that never becomes true.
C5_WaitTerminates ==
    /\ [](wait.pc = "waiting" => <>(wait.pc \in {"returned", "timeout"}))
    /\ [][(wait.pc = "waiting" /\ wait'.pc = "returned")
            => (Awaited(wait.helper, page) /\ wait'.value = "self" /\ wait'.raised = "none")]_vars
    /\ [][(wait.pc = "waiting" /\ wait'.pc = "timeout")
            => (~Awaited(wait.helper, page) /\ wait'.elapsed > wait.timeout)]_vars
    /\ [](wait.pc = "timeout" =>
            /\ wait.raised = "TimeoutException"
            /\ wait.value = "none"
            /\ wait.message[2] = "name"
            /\ Len(wait.message) >= 3)
    /\ [](wait.pc = "waiting" => wait.elapsed <= wait.timeout)

C5_Witness ==
    /\ wait.pc = "timeout"
    /\ wait.helper = "wait_text_not_contains"
    /\ wait.timeout = 1
    /\ wait.elapsed = 2
    /\ page.text = <<"b", "a">>

InitWait ==
    /\ page \in PageStates
    /\ wait = NoWait
    /\ PoIdle /\ ConcIdle /\ IpoIdle /\ CbIdle /\ WebIdle /\ KeyIdle /\ LifeIdle

NextWait ==
    \/ \E h \in WaitHelpers, timeout \in 0..MaxTimeout : start_wait(h, timeout)
    \/ poll
    \/ page_changes

\* The calling thread runs the wait's loop: a round that can be taken is taken.
SpecWait == InitWait /\ [][NextWait]_vars /\ WF_vars(poll)

(***************************************************************************)
(* web_app.py                                                              *)
(***************************************************************************)
\* The users of the installation: password, admin flag, GUI projects.
UserData ==
    [admin |-> [password |-> "pw", is_admin |-> TRUE, gui_projects |-> {}],
     alice |-> [password |-> "pw", is_admin |-> FALSE, gui_projects |-> {"p1"}],
     star |-> [password |-> "pw", is_admin |-> FALSE, gui_projects |-> {"*"}],
     bob |-> [password |-> "pw", is_admin |-> FALSE, gui_projects |-> {}]]

Usernames == DOMAIN UserData

\* The projects of the test directory, and the names requests ask for.
Projects == {"p1", "p2"}
RequestedProjects == {"p1", "p2", "zz"}

\* The tests, pages and suites of a project: "one" imports cleanly, "bad" has an
\* error in its module; "nope" is requested and does not exist.
RequestedItems == {"one", "bad", "nope"}
ArtifactExists(project, item) ==
    \/ project = "p1" /\ item \in {"one", "bad"}
    \/ project = "p2" /\ item = "one"
ImportError(item) == item = "bad"

\* current_user.is_authenticated
IsAuthenticated(user) == user # "anonymous"

\* current_user.has_gui_permissions(project)
HasGuiPermissions(user, project) ==
    /\ user \in Usernames
    /\ \/ UserData[user].is_admin
       \/ "*" \in UserData[user].gui_projects
       \/ project \in UserData[user].gui_projects

\* What a view function hands back: what it returned or aborted with, and the
\* calls it made on the way.
Rendered(template, no_sidebar, steps) ==
    [status |-> 200, template |-> template, location |-> "", message |-> <<>>,
     errors |-> <<>>, steps |-> Append(steps, "render_template"), no_sidebar |-> no_sidebar,
     login_user |-> ""]

Redirected(location, steps) ==
    [status |-> 302, template |-> "", location |-> location, message |-> <<>>,
     errors |-> <<>>, steps |-> Append(steps, "redirect"), no_sidebar |-> FALSE,
     login_user |-> ""]

Aborted(code, message, steps) ==
    [status |-> code, template |-> "", location |-> "", message |-> message,
     errors |-> <<>>, steps |-> steps, no_sidebar |-> FALSE, login_user |-> ""]

\* @login_required
login_required(user, inner) ==
    IF ~IsAuthenticated(user) THEN Aborted(401, <<"Unauthorized">>, <<>>) ELSE inner

\* @project_exists
project_exists(project, inner) ==
    IF project \notin Projects
    THEN Aborted(404, <<"The project", project, "does not exist">>, <<>>)
    ELSE inner

\* @gui_permissions_required
gui_permissions_required(user, project, inner) ==
    IF ~HasGuiPermissions(user, project)
    THEN [Rendered("not_permission.html", FALSE, <<>>) EXCEPT !.steps = <<>>]
    ELSE inner

\* The three decorators of a project route, outermost first.
ProjectRoute(user, project, inner) ==
    login_required(user, project_exists(project, gui_permissions_required(user, project, inner)))

project_view(user, project) ==
    ProjectRoute(user, project, Redirected("/project/" \o project \o "/suites/", <<>>))

project_tests(user, project) ==
    ProjectRoute(user, project, Rendered("list/test_list.html", FALSE, <<>>))

project_suites(user, project) ==
    ProjectRoute(user, project, Rendered("list/suite_list.html", FALSE, <<>>))

project_pages(user, project) ==
    ProjectRoute(user, project, Rendered("list/page_list.html", FALSE, <<>>))

test_case_view_body(project, test_case_name) ==
    IF ~ArtifactExists(project, test_case_name)
    THEN Aborted(404, <<"The test", test_case_name, "does not exist">>, <<"test_case_exists">>)
    ELSE IF ImportError(test_case_name)
         THEN Rendered("common_element_error.html", FALSE,
                       <<"test_case_exists", "separate_file_from_parents", "test_file_path",
                         "import_module", "url_for">>)
         ELSE Rendered("test_builder/test_case.html", FALSE,
                       <<"test_case_exists", "separate_file_from_parents", "test_file_path",
                         "import_module", "get_test_case_content", "get_test_data">>)

test_case_view(user, project, test_case_name) ==
    ProjectRoute(user, project, test_case_view_body(project, test_case_name))

test_case_code_view_body(project, test_case_name) ==
    IF ~ArtifactExists(project, test_case_name)
    THEN Aborted(404, <<"The test", test_case_name, "does not exist">>, <<"test_case_exists">>)
    ELSE Rendered("test_builder/test_case_code.html", FALSE,
                  <<"test_case_exists", "separate_file_from_parents", "get_test_case_code",
                    "import_module", "get_external_test_data">>)

test_case_code_view(user, project, test_case_name) ==
    ProjectRoute(user, project, test_case_code_view_body(project, test_case_name))

page_view_body(project, full_page_name, no_sidebar) ==
    IF ~ArtifactExists(project, full_page_name)
    THEN Aborted(404, <<"The page", full_page_name, "does not exist">>,
                 <<"page_file_path", "page_exists">>)
    ELSE IF ImportError(full_page_name)
         THEN Rendered("common_element_error.html", no_sidebar,
                       <<"page_file_path", "page_exists", "import_module", "url_for">>)
         ELSE Rendered("page_builder/page_object.html", no_sidebar,
                       <<"page_file_path", "page_exists", "import_module",
                         "get_page_object_content">>)

page_view(user, project, full_page_name, no_sidebar) ==
    ProjectRoute(user, project, page_view_body(project, full_page_name, no_sidebar))

\* As page_view_no_sidebar, but the undecorated view function is called.
page_view_no_sidebar_undecorated(user, project, full_page_name) ==
    login_required(user, page_view_body(project, full_page_name, TRUE))

page_view_no_sidebar(user, project, full_page_name) ==
    login_required(user, page_view(user, project, full_page_name, TRUE))

\* As page_code_view_body, but the module is imported before the page is looked for.
page_code_view_body_imports_first(project, full_page_name, no_sidebar) ==
    IF ~ArtifactExists(project, full_page_name)
    THEN Aborted(404, <<"The page", full_page_name, "does not exist">>,
                 <<"page_file_path", "import_module", "page_exists">>)
    ELSE Rendered("page_builder/page_object_code.html", no_sidebar,
                  <<"page_file_path", "import_module", "page_exists", "get_page_object_code">>)

page_code_view_body(project, full_page_name, no_sidebar) ==
    IF ~ArtifactExists(project, full_page_name)
    THEN Aborted(404, <<"The page", full_page_name, "does not exist">>, <<"page_exists">>)
    ELSE Rendered("page_builder/page_object_code.html", no_sidebar,
                  <<"page_exists", "page_file_path", "import_module", "get_page_object_code">>)

page_code_view(user, project, full_page_name, no_sidebar) ==
    ProjectRoute(user, project, page_code_view_body(project, full_page_name, no_sidebar))

page_code_view_no_sidebar(user, project, full_page_name) ==
    login_required(user, page_code_view(user, project, full_page_name, TRUE))

suite_view_body(project, suite) ==
    IF ~ArtifactExists(project, suite)
    THEN Aborted(404, <<"The suite", suite, "does not exist">>, <<"suite_exists">>)
    ELSE Rendered("suite.html", FALSE,
                  <<"suite_exists", "get_test_cases", "get_suite_test_cases",
                    "get_suite_amount_of_processes", "get_suite_browsers",
                    "get_suite_environments", "get_tags">>)

suite_view(user, project, suite) ==
    ProjectRoute(user, project, suite_view_body(project, suite))

project_settings(user, project) ==
    ProjectRoute(user, project,
                 Rendered("settings.html", FALSE,
                          <<"get_global_settings_as_string", "get_project_settings_as_string">>))

environments_view(user, project) ==
    ProjectRoute(user, project,
                 Rendered("environments.html", FALSE, <<"get_environments_as_string">>))

\* The routes with a <project> only, and those with an artifact name too.
ListRoutes ==
    {"project_view", "project_tests", "project_suites", "project_pages",
     "project_settings", "environments_view"}
ArtifactRoutes ==
    {"test_case_view", "test_case_code_view", "page_view", "page_view_no_sidebar",
     "page_code_view", "page_code_view_no_sidebar", "suite_view"}

\* The view function a route is bound to.
Dispatch(route, user, project, item) ==
    CASE route = "project_view" -> project_view(user, project)
      [] route = "project_tests" -> project_tests(user, project)
      [] route = "project_suites" -> project_suites(user, project)
      [] route = "project_pages" -> project_pages(user, project)
      [] route = "project_settings" -> project_settings(user, project)
      [] route = "environments_view" -> environments_view(user, project)
      [] route = "test_case_view" -> test_case_view(user, project, item)
      [] route = "test_case_code_view" -> test_case_code_view(user, project, item)
      [] route = "page_view" -> page_view(user, project, item, FALSE)
      [] route = "page_view_no_sidebar" -> page_view_no_sidebar(user, project, item)
      [] route = "page_code_view" -> page_code_view(user, project, item, FALSE)
      [] route = "page_code_view_no_sidebar" -> page_code_view_no_sidebar(user, project, item)
      [] route = "suite_view" -> suite_view(user, project, item)

Respond(route, project, item, r) ==
    [route |-> route, project |-> project, item |-> item, status |-> r.status,
     template |-> r.template, location |-> r.location, message |-> r.message,
     errors |-> r.errors, steps |-> r.steps, no_sidebar |-> r.no_sidebar,
     login_user |-> r.login_user]

\* A GET of a route with a <project> and no artifact name.
request_project(route, project) ==
    /\ route \in ListRoutes
    /\ response' = Respond(route, project, "", Dispatch(route, current_user, project, ""))
    /\ form' = NoForm
    /\ UNCHANGED current_user
    /\ UNCHANGED <<poVars, concVars, ipoVars, cbVars, waitVars, keyVars, lifeVars>>

\* A GET of a route with a <project> and the name of a test, page or suite.
request_artifact(route, project, item) ==
    /\ route \in ArtifactRoutes
    /\ response' = Respond(route, project, item, Dispatch(route, current_user, project, item))
    /\ form' = NoForm
    /\ UNCHANGED current_user
    /\ UNCHANGED <<poVars, concVars, ipoVars, cbVars, waitVars, keyVars, lifeVars>>

\* The values of the login form.
\* A form field or query argument the request does not carry.
Missing == "<missing>"

FormUsernames == {"", "admin", "alice", "star", "bob", "ghost", Missing}
FormPasswords == {"", "pw", "bad", Missing}
NextUrls == {"", "/project/p1/", "http://evil/", Missing}

\* gui_utils.is_safe_url
is_safe_url(next_url) == next_url # "http://evil/"

\* user.get_user_data(username=username)
get_user_data(username) == IF username \in Usernames THEN UserData[username] ELSE "None"

\* As LoginErrors, but the stored password is not compared.
LoginErrorsAnyPassword(username, password) ==
    IF username = "" THEN <<"Username is required">>
    ELSE IF password = "" THEN <<"Password is required">>
    ELSE IF username \notin Usernames THEN <<"Username does not exists">>
    ELSE <<>>

\* The errors the POST branch of login collects.
LoginErrors(username, password) ==
    IF username = "" THEN <<"Username is required">>
    ELSE IF password = "" THEN <<"Password is required">>
    ELSE IF username \notin Usernames THEN <<"Username does not exists">>
    ELSE IF UserData[username].password # password
         THEN <<"Username and password do not match">>
         ELSE <<>>

\* The next_url login redirects to or renders.
SafeNext(next_url) ==
    IF next_url \in {"", Missing} \/ ~is_safe_url(next_url) THEN "/" ELSE next_url

\* login(), for a GET or a POST of the form
login(method, username, password, next_url) ==
    /\ IF IsAuthenticated(current_user)
       THEN /\ response' = Respond("login", "", "", Redirected("/", <<>>))
            /\ UNCHANGED current_user
       ELSE IF method = "POST"
            THEN IF Missing \in {username, password, next_url}
                 THEN \* request.form[...] of a missing key: 400 Bad Request
                      /\ response' = Respond("login", "", "", Aborted(400, <<>>, <<"abort">>))
                      /\ UNCHANGED current_user
                 ELSE IF LoginErrors(username, password) # <<>>
                 THEN /\ response' = Respond("login", "", "",
                                         [Rendered("login.html", FALSE, <<>>) EXCEPT
                                            !.errors = LoginErrors(username, password),
                                            !.location = next_url])
                      /\ UNCHANGED current_user
                 ELSE /\ current_user' = username
                      /\ response' = Respond("login", "", "",
                                         [Redirected(SafeNext(next_url), <<"login_user">>) EXCEPT
                                            !.login_user = username])
            ELSE /\ response' = Respond("login", "", "",
                                    [Rendered("login.html", FALSE, <<>>) EXCEPT
                                       !.location = SafeNext(next_url)])
                 /\ UNCHANGED current_user
    /\ form' = [method |-> method, username |-> username, password |-> password,
                next_url |-> next_url, user_before |-> current_user]
    /\ UNCHANGED <<poVars, concVars, ipoVars, cbVars, waitVars, keyVars, lifeVars>>

\* logout()
logout ==
    /\ IF IsAuthenticated(current_user)
       THEN /\ current_user' = "anonymous"
            /\ response' = Respond("logout", "", "", Redirected("/", <<"logout_user">>))
       ELSE /\ response' = Respond("logout", "", "", Aborted(401, <<"Unauthorized">>, <<>>))
            /\ UNCHANGED current_user
    /\ form' = NoForm
    /\ UNCHANGED <<poVars, concVars, ipoVars, cbVars, waitVars, keyVars, lifeVars>>

\* The calls of a view that come after the look-up of its test, page or suite.
LaterSteps ==
    {"import_module", "get_test_case_content", "get_test_data", "get_test_case_code",
     "get_external_test_data", "get_page_object_content", "get_page_object_code",
     "get_test_cases", "get_suite_test_cases", "get_suite_amount_of_processes",
     "get_suite_browsers", "get_suite_environments", "get_tags", "url_for",
     "render_template"}

StepsOf(r) == { r.steps[i] : i \in 1..Len(r.steps) }

PassesChecks(user, project) ==
    /\ user # "anonymous"
    /\ project \in {"p1", "p2"}
    /\ \/ user = "admin"
       \/ user = "star"
       \/ user = "alice" /\ project = "p1"

\* C9: a route that takes a <project>, the two no_sidebar page routes included,
\* gets into its view function (and so returns anything of the project) only
\* when the user is authenticated, the project exists and the user has GUI
\* permission for it.
C9_ProjectRoutesChecked ==
    (/\ response.route \in ListRoutes \cup ArtifactRoutes
     /\ \/ response.steps # <<>>
        \/ response.status \in {200, 302} /\ response.template # "not_permission.html")
    => PassesChecks(current_user, response.project)

C9_Witness ==
    /\ response.route = "page_view_no_sidebar"
    /\ current_user = "alice"
    /\ response.project = "p1"
    /\ response.template = "page_builder/page_object.html"
    /\ response.no_sidebar

\* The kind of artifact each view names in its not-found message.
NotFoundSubject(route) ==
    CASE route \in {"test_case_view", "test_case_code_view"} -> "The test"
      [] route \in {"page_view", "page_view_no_sidebar", "page_code_view",
                    "page_code_view_no_sidebar"} -> "The page"
      [] route = "suite_view" -> "The suite"

\* C10: in the test, test code, page, page code and suite views a request for a
\* test, page or suite that does not exist ends in a 404 whose message names it,
\* and no later step (module import, content read, template render) is run.
C10_MissingArtifactIs404 ==
    (/\ response.route \in ArtifactRoutes
     /\ ~(response.project = "p1" /\ response.item \in {"one", "bad"})
     /\ ~(response.project = "p2" /\ response.item = "one"))
    => /\ StepsOf(response) \cap LaterSteps = {}
       /\ response.template \in {"", "not_permission.html"}
       /\ PassesChecks(current_user, response.project) =>
             /\ response.status = 404
             /\ response.message = <<NotFoundSubject(response.route), response.item,
                                     "does not exist">>

C10_Witness ==
    /\ response.route = "page_code_view"
    /\ current_user = "star"
    /\ response.project = "p2"
    /\ response.item = "bad"
    /\ response.status = 404

\* The submitted credentials are those of a user record.
CredentialsMatch ==
    /\ form.username \notin {"", Missing}
    /\ form.password \notin {"", Missing}
    /\ form.username \in Usernames
    /\ UserData[form.username].password = form.password

\* What a POST of the login form does for a client without a session.
LoginFormHandled ==
    /\ response.login_user # "" => CredentialsMatch
    /\ ~CredentialsMatch
       => /\ response.status = 200
          /\ response.template = "login.html"
          /\ response.errors # <<>>
          /\ response.login_user = ""
          /\ current_user = form.user_before
    /\ response.login_user # ""
       => /\ response.status = 302
          /\ response.location = (IF /\ form.next_url \notin {"", Missing}
                                     /\ is_safe_url(form.next_url)
                                  THEN form.next_url ELSE "/")

\* C14 as stated: a POST to login calls login_user only when username and
\* password are non-empty, the user exists and the stored password equals the
\* submitted one; in every other case the login page is rendered with a
\* non-empty error list and no session is established; after a successful login
\* the redirect goes to the submitted next URL only if it is non-empty and safe,
\* otherwise to '/'.
C14_LoginOnlyWithCredentials == form.method = "POST" => LoginFormHandled

\* The POST carries the username, password and next fields.
FormComplete == Missing \notin {form.username, form.password, form.next_url}

\* C14 amended: the above holds for a POST that carries the username, password
\* and next fields and comes from a client that is not yet authenticated, and
\* there matching credentials do log the user in. A POST by an authenticated
\* client is redirected to the index whatever it submits, and a POST lacking a
\* field is answered 400: both render no login page, call no login_user and
\* leave the session as it was.
C14_LoginOnlyWithCredentialsWhenAnonymous ==
    form.method = "POST"
    => IF IsAuthenticated(form.user_before)
       THEN /\ response.status = 302
            /\ response.location = "/"
            /\ response.errors = <<>>
            /\ response.login_user = ""
            /\ current_user = form.user_before
       ELSE IF ~FormComplete
       THEN /\ response.status = 400
            /\ response.login_user = ""
            /\ current_user = form.user_before
       ELSE /\ LoginFormHandled
            /\ CredentialsMatch
               => (response.login_user = form.username /\ current_user = form.username)

C14_Witness ==
    /\ form.method = "POST"
    /\ form.user_before = "anonymous"
    /\ form.username = "alice"
    /\ form.next_url = "/project/p1/"
    /\ response.login_user = "alice"
    /\ response.location = "/project/p1/"
    /\ current_user = "alice"

InitWeb ==
    /\ current_user = "anonymous"
    /\ response = NoResponse
    /\ form = NoForm
    /\ PoIdle /\ ConcIdle /\ IpoIdle /\ CbIdle /\ WaitIdle /\ KeyIdle /\ LifeIdle

NextWeb ==
    \/ \E method \in {"GET", "POST"}, username \in FormUsernames, password \in FormPasswords,
          next_url \in NextUrls : login(method, username, password, next_url)
    \/ logout
    \/ \E route \in ListRoutes, project \in RequestedProjects : request_project(route, project)
    \/ \E route \in ArtifactRoutes, project \in RequestedProjects, item \in RequestedItems :
          request_artifact(route, project, item)

SpecWeb == InitWeb /\ [][NextWeb]_vars

(***************************************************************************)
(* extended_webelement.py: press_key and send_keys_with_delay              *)
(***************************************************************************)
MaxKeyCalls == 2

\* Names of key constants of the Keys class, names the class has as any Python
\* class has them, and names it does not have.
DefinedKeys == {"ENTER", "TAB"}
ClassAttributes == {"__doc__"}
UnknownNames == {"FOO", "enter"}
KeyNames == DefinedKeys \cup ClassAttributes \cup UnknownNames

\* hasattr(Keys, key)
hasattr_Keys(key) == key \in DefinedKeys \cup ClassAttributes

\* The values and delays send_keys_with_delay is called with; a float delay is
\* written as the integer of the same sign.
TypedValues == { <<"a">>, <<"b">>, <<"a", "b">> }
DelayTypes == {"int", "float", "str", "NoneType"}
Delays == {-1, 0, 1}

\* ExtendedWebElement.press_key
PressKey(key, sent) ==
    IF hasattr_Keys(key)
    THEN [raised |-> "none", sent |-> Append(sent, "Keys." \o key)]
    ELSE [raised |-> "ValueError", sent |-> sent]

\* ExtendedWebElement.send_keys_with_delay
SendKeysWithDelay(value, delay_type, delay, sent) ==
    IF delay_type # "int" /\ delay_type # "float"
    THEN [raised |-> "ValueError", sent |-> sent]
    ELSE IF delay < 0
         THEN [raised |-> "ValueError", sent |-> sent]
         ELSE [raised |-> "none", sent |-> sent \o value]

press_key(key) ==
    /\ key_call.n < MaxKeyCalls
    /\ keys_sent' = PressKey(key, keys_sent).sent
    /\ key_call' = [method |-> "press_key", key |-> key, value |-> <<>>, delay_type |-> "none",
                    delay |-> 0, raised |-> PressKey(key, keys_sent).raised,
                    sent_before |-> keys_sent, n |-> key_call.n + 1]
    /\ UNCHANGED <<poVars, concVars, ipoVars, cbVars, waitVars, webVars, lifeVars>>

send_keys_with_delay(value, delay_type, delay) ==
    /\ key_call.n < MaxKeyCalls
    /\ delay_type \in {"str", "NoneType"} => delay = 0
    /\ keys_sent' = SendKeysWithDelay(value, delay_type, delay, keys_sent).sent
    /\ key_call' = [method |-> "send_keys_with_delay", key |-> "", value |-> value,
                    delay_type |-> delay_type, delay |-> delay,
                    raised |-> SendKeysWithDelay(value, delay_type, delay, keys_sent).raised,
                    sent_before |-> keys_sent, n |-> key_call.n + 1]
    /\ UNCHANGED <<poVars, concVars, ipoVars, cbVars, waitVars, webVars, lifeVars>>

\* C11: an invalid argument raises a value error and leaves the element alone:
\* press_key with a name that is not a defined key raises ValueError and sends
\* no key; send_keys_with_delay with a delay that is not an int or float, or
\* that is not a positive number, raises ValueError before any character is sent.
C11_InvalidArgumentsRaise ==
    /\ (key_call.method = "press_key" /\ key_call.key \notin {"ENTER", "TAB"})
       => (key_call.raised = "ValueError" /\ keys_sent = key_call.sent_before)
    /\ (/\ key_call.method = "send_keys_with_delay"
        /\ \/ key_call.delay_type \notin {"int", "float"}
           \/ key_call.delay <= 0)
       => (key_call.raised = "ValueError" /\ keys_sent = key_call.sent_before)

InitKeys ==
    /\ keys_sent = <<>>
    /\ key_call = NoKeyCall
    /\ PoIdle /\ ConcIdle /\ IpoIdle /\ CbIdle /\ WaitIdle /\ WebIdle /\ LifeIdle

NextKeys ==
    \/ \E value \in TypedValues, delay_type \in DelayTypes, delay \in Delays :
          send_keys_with_delay(value, delay_type, delay)
    \/ \E key \in KeyNames : press_key(key)

SpecKeys == InitKeys /\ [][NextKeys]_vars

-----------------------------------------------------------------------------
\* The life of one page file: new_page_object, save_page_object and
\* get_page_object_elements called one after another on the same path.

\* A page file somebody wrote by hand: a comment and one element.
HandEditedFile ==
    <<"#", " ", "p", "a", "g", "e", NL>> \o WriteAll(<<CompactElement>>)

ExistingFiles == {<<>>, HandEditedFile}

\* The pages directory is missing, or is there without the file, or holds the file.
PageFsStates ==
    { [dir_exists |-> FALSE, file_exists |-> FALSE],
      [dir_exists |-> TRUE, file_exists |-> FALSE],
      [dir_exists |-> TRUE, file_exists |-> TRUE] }

\* As SavePageObject, but the file is opened for update without truncating it.
SavePageObjectInPlace(fs, content, els) ==
    IF ~fs.dir_exists
    THEN [raised |-> "IOError", fs |-> fs, content |-> content]
    ELSE [raised |-> "none", fs |-> [fs EXCEPT !.file_exists = TRUE],
          content |-> WriteAtStart(content, WriteAll(els))]

\* save_page_object: open(path, 'w') creates or truncates the file, the loop
\* writes one line per element, leaving the with block closes the file.
SavePageObject(fs, content, els) ==
    IF ~fs.dir_exists
    THEN [raised |-> "IOError", fs |-> fs, content |-> content]
    ELSE [raised |-> "none", fs |-> [fs EXCEPT !.file_exists = TRUE],
          content |-> WriteAtStart(<<>>, WriteAll(els))]

\* As NewPageObject, but a file that is already there is left as it is.
NewPageObjectKeepsExisting(fs, content) ==
    [fs |-> [dir_exists |-> TRUE, file_exists |-> TRUE],
     content |-> IF fs.file_exists THEN content ELSE <<>>]

\* new_page_object: makedirs when the directory is missing, then open(path, 'w')
\* and f.write('').
NewPageObject(fs, content) ==
    [fs |-> [dir_exists |-> TRUE, file_exists |-> TRUE],
     content |-> WriteAtStart(<<>>, <<>>)]

\* get_page_object_elements: open(path) raises when the file is missing.
GetPageObjectElements(fs, content) ==
    IF ~fs.file_exists
    THEN [raised |-> "IOError", value |-> <<>>]
    ELSE get_web_elements(ReadLines(content))

save_page(els) ==
    LET saved == SavePageObject(page_fs, file, els)
    IN  /\ file' = saved.content
        /\ page_fs' = saved.fs
        /\ previous' = file
        /\ elements' = IF saved.raised = "none" THEN els ELSE elements
        /\ po_op' = IF saved.raised = "none" THEN "save" ELSE "save_raised"
        /\ prev_op' = po_op
        /\ UNCHANGED <<web_elements, source_lines>>
        /\ UNCHANGED <<concVars, ipoVars, cbVars, waitVars, webVars, keyVars>>

new_page_object ==
    LET created == NewPageObject(page_fs, file)
    IN  /\ file' = created.content
        /\ page_fs' = created.fs
        /\ previous' = file
        /\ po_op' = "new"
        /\ prev_op' = po_op
        /\ UNCHANGED <<elements, web_elements, source_lines>>
        /\ UNCHANGED <<concVars, ipoVars, cbVars, waitVars, webVars, keyVars>>

\* prev_op keeps the last call that was not a view.
view_page ==
    /\ web_elements' = GetPageObjectElements(page_fs, file)
    /\ po_op' = "view"
    /\ prev_op' = IF po_op = "view" THEN prev_op ELSE po_op
    /\ UNCHANGED <<elements, file, previous, source_lines, page_fs>>
    /\ UNCHANGED <<concVars, ipoVars, cbVars, waitVars, webVars, keyVars>>

\* C12: a save overwrites the page file wholesale. After any sequence of saves
\* (and creations and views) the file of the last save is exactly one line per
\* element of that save's list, in the order given, and holds nothing of what
\* the file held before, also when the list is shorter than before or empty.
C12_SaveOverwritesWholesale ==
    po_op = "save"
    => /\ page_fs.file_exists
       /\ file = WriteAll(elements)
       /\ Len(ReadLines(file)) = Len(elements)
       /\ \A i \in 1..Len(elements) : ReadLines(file)[i] = WriteLine(elements[i])

C12_Witness ==
    /\ po_op = "save"
    /\ prev_op = "save"
    /\ Len(elements) = 1
    /\ Len(previous) > Len(file)
    /\ file = WriteAll(elements)

\* C15: after new_page_object the directory and the file exist and the file is
\* empty, whatever was there before, and viewing the page right after it
\* yields no element record.
C15_NewPageIsEmpty ==
    /\ po_op = "new"
       => (page_fs.dir_exists /\ page_fs.file_exists /\ file = <<>>)
    /\ (po_op = "view" /\ prev_op = "new")
       => (web_elements = NoResult /\ file = <<>>)

C15_Witness ==
    /\ po_op = "view"
    /\ prev_op = "new"
    /\ elements # <<>>
    /\ previous = WriteAll(elements)
    /\ web_elements.value = <<>>

InitLifecycle ==
    /\ page_fs \in PageFsStates
    /\ file \in (IF page_fs.file_exists THEN ExistingFiles ELSE {<<>>})
    /\ elements = <<>> /\ previous = <<>> /\ source_lines = <<>>
    /\ web_elements = NoResult
    /\ po_op = "none" /\ prev_op = "none"
    /\ ConcIdle /\ IpoIdle /\ CbIdle /\ WaitIdle /\ WebIdle /\ KeyIdle

NextLifecycle ==
    \/ \E els \in SaveLists : save_page(els)
    \/ new_page_object
    \/ view_page

SpecLifecycle == InitLifecycle /\ [][NextLifecycle]_vars

=============================================================================
